---- MODULE Spec2Model ----
(***************************************************************************)
(* Task orchestration core of the optimisation API server:                 *)
(*   - the MATLAB bridge and its connect() fallback (matlab_bridge.py),    *)
(*   - the task registry active_tasks / task_results (main.py),            *)
(*   - the batch executor _run_batch_task and its progress callback,       *)
(*   - cancel_task, and the WebSocket progress stream.                     *)
(* Every action is one atomic block of the asyncio event loop: the code    *)
(* that runs between two suspension points (await asyncio.sleep, await     *)
(* run_in_executor, await websocket.send_json / accept).                   *)
(* Fitness values are integers in units of 1e-10, so the floor 1e-10 of    *)
(* the synthetic backend is the integer 1.                                 *)
(***************************************************************************)
EXTENDS Integers, Sequences, FiniteSets, TLC

\* ------------------------------------------------------------------ bounds
\* largest maxIterations a request carries (11 gives two callbacks per run)
MaxIter == 11
\* longest algorithm list of a request
MaxAlgs == 2
\* largest raw fitness value the backends produce
MaxFitness == 2
\* progress messages one stream may take before the model stops polling it
MaxMsgs == 2

\* ------------------------------------------------------- program constants
\* matlab_bridge.py:180  floor of the simulated fitness (1e-10, in units of 1e-10)
FitnessFloor == 1
\* matlab_bridge.py:186  the progress callback is invoked when i % 10 == 0
CallbackEvery == 10

TaskIds == {"t1", "t2"}
StreamIds == {"w1"}
AlgorithmIds == {"GWO", "ALO"}
RawFitness == 0..MaxFitness
\* float('inf'): larger than every fitness a backend reports
Inf == MaxFitness + 1
\* maxIterations is an unconstrained int (models.py:15)
IterChoices == {-1, 0, 1, MaxIter}
\* the requests submitted while a progress stream is observed
ShortIterChoices == {0, 1}

RECURSIVE SeqsUpTo(_, _)
SeqsUpTo(S, n) ==
    IF n = 0 THEN {<<>>}
    ELSE LET shorter == SeqsUpTo(S, n - 1)
         IN  shorter \cup {Append(q, x) : q \in {r \in shorter : Len(r) = n - 1}, x \in S}

AlgorithmLists == SeqsUpTo(AlgorithmIds, MaxAlgs)
\* the algorithm lists of the requests submitted while a stream is observed
ShortAlgorithmLists == {<<>>, <<"GWO">>, <<"GWO", "ALO">>}

Terminal == {"completed", "error", "cancelled"}

VARIABLES
    bridge,         \* the global MatlabBridge instance
    active_tasks,   \* task id -> TaskProgress
    task_results,   \* task id -> results of the batch
    executor,       \* task id -> frame of the _run_batch_task coroutine
    streams,        \* stream id -> frame of the websocket_task_progress coroutine
    cancelResp,     \* response of the cancel request handled by the last step
    runs,           \* history: per task, the backend invocations made so far
    reported,       \* history: per task, the fitness values passed to the callback
    cancelledAt,    \* history: per task, number of invocations when cancel succeeded
    ranking,        \* one call of _calculate_rankings: its argument and its value
    sim             \* one call of _simulate_optimization with a recording progress sink

vars == <<bridge, active_tasks, task_results, executor, streams, cancelResp,
          runs, reported, cancelledAt, ranking, sim>>

\* the calls observed on their own, outside the task registry
calls == <<ranking, sim>>

Min(a, b) == IF a <= b THEN a ELSE b

\* no cancel request was handled by the last step
NoCancel == [task |-> "none", cancelled |-> FALSE]

EmptyMap == [x \in {} |-> 0]

\* ------------------------------------------------------------------ bridge
\* MatlabBridge.__init__: eng = None, _connected = False,
\* _simulation_mode = not MATLAB_AVAILABLE
NewBridge(available) ==
    [MATLAB_AVAILABLE |-> available,
     eng              |-> "None",
     connected        |-> FALSE,
     simulation_mode  |-> ~available,
     attempt          |-> "not_started"]

\* what can happen to the engine while connect() runs
ConnectOutcomes == {"engine_ok", "start_fails", "setup_fails"}

\* _start_matlab_engine: the engine, or None when start_matlab() raises
start_matlab_engine(outcome) ==
    IF outcome = "start_fails" THEN "None" ELSE "engine"

\* MatlabBridge.connect, as run by the lifespan handler before any request
connect_result(b, outcome) ==
    IF b.simulation_mode
    THEN [b EXCEPT !.connected = TRUE, !.attempt = "simulation"]
    ELSE LET eng == start_matlab_engine(outcome) IN
         IF eng # "None"
         THEN IF outcome = "setup_fails"
              \* addpath / registerAllAlgorithms raised: the except branch
              THEN [b EXCEPT !.eng = eng, !.simulation_mode = TRUE,
                             !.connected = TRUE, !.attempt = outcome]
              ELSE [b EXCEPT !.eng = eng, !.connected = TRUE, !.attempt = outcome]
         \* "return False": nothing but self.eng (None) was assigned
         ELSE [b EXCEPT !.eng = eng, !.attempt = outcome]

\* ------------------------------------------------------------ task records
ProgressZero == [num |-> 0, den |-> 1]
ProgressFull == [num |-> 100, den |-> 1]
\* p <= q for progress values kept as exact fractions num/den
ProgressLeq(p, q) == p.num * q.den <= q.num * p.den

\* faulty variant: the total counts each algorithm id once
NewTaskDistinctIds(algorithms, maxIterations) ==
    [status          |-> "idle",
     currentIteration |-> 0,
     totalIterations |-> maxIterations * Cardinality({algorithms[k] : k \in DOMAIN algorithms}),
     currentFitness  |-> Inf,
     bestFitness     |-> Inf,
     progress        |-> ProgressZero]

\* TaskProgress(...) as built by submit_batch_task
NewTask(algorithms, maxIterations) ==
    [status          |-> "idle",
     currentIteration |-> 0,
     totalIterations |-> maxIterations * Len(algorithms),
     currentFitness  |-> Inf,
     bestFitness     |-> Inf,
     progress        |-> ProgressZero]

\* frame of a _run_batch_task coroutine that does not exist yet
NoExecutor ==
    [pc |-> "none", algorithms |-> <<>>, maxIterations |-> 0, idx |-> 0,
     results |-> EmptyMap, total_iterations |-> 0, completed_iterations |-> 0,
     i |-> 0, current_fitness |-> 0]

\* asyncio.create_task(_run_batch_task(task_id, request)): created, not yet run
NewExecutor(algorithms, maxIterations) ==
    [NoExecutor EXCEPT !.pc = "scheduled", !.algorithms = algorithms,
                       !.maxIterations = maxIterations]

\* faulty variant: completed_iterations is one counter shared by all executors
CtxSharedCounter(t) ==
    [task |-> active_tasks[t],
     ex |-> [executor[t] EXCEPT !.completed_iterations =
                executor["t1"].completed_iterations + executor["t2"].completed_iterations],
     publish |-> FALSE, run |-> runs[t], rep |-> reported[t]]

\* the part of the state one executor step reads and writes
Ctx(t) ==
    [task |-> active_tasks[t], ex |-> executor[t], publish |-> FALSE,
     run |-> runs[t], rep |-> reported[t]]

\* -------------------------------------------------------- batch executor
\* faulty variant: the best fitness is overwritten by the latest one
BestOfLatest(best, fitness) == fitness

\* task.bestFitness = min(task.bestFitness, fitness)
BestOf(best, fitness) == Min(best, fitness)

\* progress_callback(current, total, fitness): the closure of _run_batch_task
progress_callback(c, fitness) ==
    LET n == c.ex.completed_iterations + 1 IN
    [c EXCEPT !.ex.completed_iterations = n,
              !.task.currentIteration = n,
              !.task.currentFitness = fitness,
              !.task.bestFitness = BestOf(@, fitness),
              !.task.progress = [num |-> n * 100, den |-> c.ex.total_iterations],
              !.rep = @ \cup {fitness}]

\* "if current_fitness < 1e-10: current_fitness = 1e-10"
FloorFitness(raw) == IF raw < FitnessFloor THEN FitnessFloor ELSE raw

\* faulty variant: the sink is called when ten iterations are complete
SinkDueAfterTen(i) == (i + 1) % CallbackEvery = 0

\* "if progress_callback and i % 10 == 0"
SinkDue(i) == i % CallbackEvery = 0

\* one pass of the body of "for i in range(max_iter)" up to its await sleep
SimIterate(c, i, raw) ==
    LET fit == FloorFitness(raw)
        d   == [c EXCEPT !.ex.i = i, !.ex.current_fitness = fit, !.ex.pc = "sleep"]
    IN  IF SinkDue(i) THEN progress_callback(d, fit) ELSE d

\* history: the outcome of the invocation in flight
EndRun(c, outcome, best) ==
    [c EXCEPT !.run[Len(c.run)].outcome = outcome,
              !.run[Len(c.run)].bestFitness = best]

\* faulty variant: the except branch returns without recording the error
OnBackendErrorSilent(c) ==
    [EndRun(c, "failed", Inf) EXCEPT !.ex.pc = "done"]

\* "except Exception: task.status = 'error'; return"
OnBackendError(c) ==
    [EndRun(c, "failed", Inf) EXCEPT !.task.status = "error", !.ex.pc = "done"]

\* faulty variant: completion leaves progress where the last callback put it
CompleteKeepsProgress(c) ==
    [c EXCEPT !.task.status = "completed", !.publish = TRUE, !.ex.pc = "done"]

\* faulty variant: completion does not publish the results
CompleteNoPublish(c) ==
    [c EXCEPT !.task.status = "completed", !.task.progress = ProgressFull,
              !.ex.pc = "done"]

\* lines 306-309: the terminal write of a batch that was not cancelled
Complete(c) ==
    [c EXCEPT !.task.status = "completed",
              !.task.progress = ProgressFull,
              !.publish = TRUE,
              !.ex.pc = "done"]

\* faulty variant: the executor returns after the loop without a terminal write
AfterLoopSilent(c) == [c EXCEPT !.ex.pc = "done"]

\* the code after the for loop
AfterLoop(c) ==
    IF c.task.status # "cancelled" THEN Complete(c) ELSE [c EXCEPT !.ex.pc = "done"]

\* matlab_bridge.run_optimization up to its first suspension point
StartBackend(c, raw) ==
    LET alg == c.ex.algorithms[c.ex.idx]
        d   == [c EXCEPT !.run = Append(@, [alg |-> alg, startStatus |-> c.task.status,
                                            outcome |-> "pending", bestFitness |-> Inf])]
    IN  IF bridge.simulation_mode
        THEN IF c.ex.maxIterations > 0
             THEN SimIterate(d, 0, raw)
             \* range(max_iter) is empty: convergence_curve[-1] raises IndexError
             ELSE OnBackendError(d)
        \* await loop.run_in_executor(...): the callback is not passed on
        ELSE [d EXCEPT !.ex.pc = "matlab"]

\* head of "for algorithm_id in request.algorithms" for the algorithm at ex.idx
LoopHead(c, raw) ==
    IF c.ex.idx > Len(c.ex.algorithms) THEN AfterLoop(c)
    ELSE IF c.task.status = "cancelled" THEN AfterLoop(c)
    ELSE StartBackend(c, raw)

\* faulty variant: the loop goes on to the next algorithm without storing
StoreResultDropped(c, result, raw) ==
    LoopHead([EndRun(c, "returned", result.bestFitness) EXCEPT
                 !.ex.idx = @ + 1, !.ex.i = 0, !.ex.current_fitness = 0], raw)

\* "results[algorithm_id] = result" and on to the next algorithm
StoreResult(c, result, raw) ==
    LET alg == c.ex.algorithms[c.ex.idx]
        d   == [EndRun(c, "returned", result.bestFitness) EXCEPT
                   !.ex.results = [a \in (DOMAIN @) \cup {alg} |->
                                      IF a = alg THEN result ELSE @[a]],
                   !.ex.idx = @ + 1, !.ex.i = 0, !.ex.current_fitness = 0]
    IN  LoopHead(d, raw)

\* the result dictionary built at the end of _simulate_optimization
SimResult(c) ==
    [algorithm   |-> c.ex.algorithms[c.ex.idx],
     bestFitness |-> c.ex.current_fitness,
     iterations  |-> c.ex.maxIterations]

\* json.loads(result_json) of a successful engine call
MatlabResult(c, raw) ==
    [algorithm   |-> c.ex.algorithms[c.ex.idx],
     bestFitness |-> raw,
     iterations  |-> c.ex.maxIterations]

\* write one executor step back to the registry
Commit(t, c) ==
    /\ active_tasks' = [active_tasks EXCEPT ![t] = c.task]
    /\ executor' = [executor EXCEPT ![t] = c.ex]
    /\ task_results' = IF c.publish
                       THEN [u \in (DOMAIN task_results) \cup {t} |->
                               IF u = t THEN c.ex.results ELSE task_results[u]]
                       ELSE task_results
    /\ runs' = [runs EXCEPT ![t] = c.run]
    /\ reported' = [reported EXCEPT ![t] = c.rep]
    /\ cancelResp' = NoCancel
    /\ UNCHANGED <<bridge, streams, cancelledAt, calls>>

\* ----------------------------------------------------------------- actions
\* lifespan: await matlab_bridge.connect()
connect ==
    /\ bridge.attempt = "not_started"
    /\ \E outcome \in ConnectOutcomes : bridge' = connect_result(bridge, outcome)
    /\ UNCHANGED <<active_tasks, task_results, executor, streams, cancelResp,
                   runs, reported, cancelledAt, calls>>

Serving == bridge.attempt # "not_started"

\* POST /api/v1/optimize/batch
submit_batch_task(ids, lists, iterations) ==
    /\ Serving
    /\ \E t \in ids \ DOMAIN active_tasks, algorithms \in lists,
          maxIterations \in iterations :
          /\ active_tasks' = [u \in (DOMAIN active_tasks) \cup {t} |->
                                IF u = t THEN NewTask(algorithms, maxIterations)
                                ELSE active_tasks[u]]
          /\ executor' = [executor EXCEPT ![t] = NewExecutor(algorithms, maxIterations)]
    /\ cancelResp' = NoCancel
    /\ UNCHANGED <<bridge, task_results, streams, runs, reported, cancelledAt,
                   calls>>

\* _run_batch_task from its first line to its first suspension point
run_batch_task(t) ==
    /\ executor[t].pc = "scheduled"
    /\ \E raw \in RawFitness :
         LET c == Ctx(t)
             d == [c EXCEPT !.task.status = "running",
                            !.ex.results = EmptyMap,
                            !.ex.total_iterations =
                                c.ex.maxIterations * Len(c.ex.algorithms),
                            !.ex.completed_iterations = 0,
                            !.ex.idx = 1]
         IN  Commit(t, LoopHead(d, raw))

\* _simulate_optimization resumes after "await asyncio.sleep(0.001)"
simulate_resume(t) ==
    /\ executor[t].pc = "sleep"
    /\ \E raw \in RawFitness :
         LET c == Ctx(t)
             next == c.ex.i + 1
         IN  IF next < c.ex.maxIterations
             THEN Commit(t, SimIterate(c, next, raw))
             ELSE Commit(t, StoreResult(c, SimResult(c), raw))

\* the engine call made through run_in_executor returns a result
matlab_return(t) ==
    /\ executor[t].pc = "matlab"
    /\ bridge.eng # "None"
    /\ \E best \in RawFitness :
         LET c == Ctx(t) IN Commit(t, StoreResult(c, MatlabResult(c, best), best))

\* the engine call raises (always so when self.eng is None): RuntimeError
matlab_raise(t) ==
    /\ executor[t].pc = "matlab"
    /\ Commit(t, OnBackendError(Ctx(t)))

\* faulty variant: a task that has not started yet is cancelled too
CancellableOrIdle(status) == status \in {"idle", "running"}

\* "if task.status == 'running'"
Cancellable(status) == status = "running"

\* DELETE /api/v1/tasks/{task_id} for a task of the registry
cancel_task(t) ==
    /\ Serving
    /\ t \in DOMAIN active_tasks
    /\ IF Cancellable(active_tasks[t].status)
       THEN /\ active_tasks' = [active_tasks EXCEPT ![t].status = "cancelled"]
            /\ cancelResp' = [task |-> t, cancelled |-> TRUE]
            /\ cancelledAt' = [cancelledAt EXCEPT ![t] = Len(runs[t])]
       ELSE /\ cancelResp' = [task |-> t, cancelled |-> FALSE]
            /\ UNCHANGED <<active_tasks, cancelledAt>>
    /\ UNCHANGED <<bridge, task_results, executor, streams, runs, reported, calls>>

\* ------------------------------------------------------- progress stream
\* no websocket_task_progress coroutine for this stream yet
\* (missed: history, a poll of this stream found its task id unknown)
NoStream ==
    [pc |-> "none", task_id |-> "none", pending |-> <<>>, msgs |-> <<>>,
     missed |-> FALSE]

\* task.model_dump(): of the dumped fields the model keeps the status, the one
\* field of a progress message the stream's observers are specified by
model_dump(task) == [status |-> task.status]

ProgressMsg(snapshot) == [type |-> "progress", data |-> snapshot]
ResultMsg(results) == [type |-> "result", data |-> results]

\* a client opens /ws/tasks/{task_id}: "await websocket.accept()"
ws_accept(s) ==
    /\ Serving
    /\ streams[s].pc = "none"
    /\ \E tid \in TaskIds :
         streams' = [streams EXCEPT ![s] = [NoStream EXCEPT !.pc = "accepting",
                                                            !.task_id = tid]]
    /\ cancelResp' = NoCancel
    /\ UNCHANGED <<bridge, active_tasks, task_results, executor, runs, reported,
                   cancelledAt, calls>>

\* faulty variant: a stream on an unknown task id is closed
UnknownTaskCloses == "closed"

\* "if task_id in active_tasks" is false: on to "await asyncio.sleep(0.1)"
UnknownTaskNext == "sleeping"

\* top of "while True" after accept or after "await asyncio.sleep(0.1)":
\* task.model_dump() is taken here, then send_json suspends
ws_poll(s) ==
    /\ streams[s].pc \in {"accepting", "sleeping"}
    /\ Len(streams[s].msgs) < MaxMsgs
    /\ LET tid == streams[s].task_id IN
       IF tid \in DOMAIN active_tasks
       THEN streams' = [streams EXCEPT ![s].pc = "sending",
                                       ![s].pending = <<model_dump(active_tasks[tid])>>]
       ELSE streams' = [streams EXCEPT ![s].pc = UnknownTaskNext, ![s].missed = TRUE]
    /\ cancelResp' = NoCancel
    /\ UNCHANGED <<bridge, active_tasks, task_results, executor, runs, reported,
                   cancelledAt, calls>>

\* the stream's pc after the progress message went out: lines 242-251,
\* reading the task's status as it is now
AfterProgress(tid) ==
    IF active_tasks[tid].status \in Terminal
    THEN IF tid \in DOMAIN task_results THEN "sending_result" ELSE "closed"
    ELSE "sleeping"

\* send_json of the progress message returns
ws_progress_sent(s) ==
    /\ streams[s].pc = "sending"
    /\ LET tid  == streams[s].task_id
           next == AfterProgress(tid)
       IN  streams' = [streams EXCEPT
                ![s].pc = next,
                ![s].msgs = Append(@, ProgressMsg(streams[s].pending[1])),
                ![s].pending = IF next = "sending_result"
                               THEN <<task_results[tid]>> ELSE <<>>]
    /\ cancelResp' = NoCancel
    /\ UNCHANGED <<bridge, active_tasks, task_results, executor, runs, reported,
                   cancelledAt, calls>>

\* send_json of the result message returns, then "break"
ws_result_sent(s) ==
    /\ streams[s].pc = "sending_result"
    /\ streams' = [streams EXCEPT ![s].pc = "closed",
                                  ![s].msgs = Append(@, ResultMsg(streams[s].pending[1])),
                                  ![s].pending = <<>>]
    /\ cancelResp' = NoCancel
    /\ UNCHANGED <<bridge, active_tasks, task_results, executor, runs, reported,
                   cancelledAt, calls>>

\* faulty variant: a disconnect cancels the task the stream was watching
ws_disconnect_cancels(s) ==
    /\ streams[s].pc \in {"sending", "sending_result"}
    /\ streams' = [streams EXCEPT ![s].pc = "disconnected", ![s].pending = <<>>]
    /\ active_tasks' = [active_tasks EXCEPT ![streams[s].task_id].status = "cancelled"]
    /\ cancelResp' = NoCancel
    /\ UNCHANGED <<bridge, task_results, executor, runs, reported, cancelledAt, calls>>

\* the observer went away: the send in flight raises and the handler ends
ws_disconnect(s) ==
    /\ streams[s].pc \in {"sending", "sending_result"}
    /\ streams' = [streams EXCEPT ![s].pc = "disconnected", ![s].pending = <<>>]
    /\ cancelResp' = NoCancel
    /\ UNCHANGED <<bridge, active_tasks, task_results, executor, runs, reported,
                   cancelledAt, calls>>

\* ------------------------------------------------------ _calculate_rankings
\* the dictionaries handed to _calculate_rankings: items in insertion order,
\* one per algorithm id
RankAlgs == {"A", "B", "C"}
RankFitness == {2, 5, 8}
RankItems == [alg : RankAlgs, bestFitness : RankFitness]
RankInputs ==
    {q \in SeqsUpTo(RankItems, Cardinality(RankAlgs)) :
        \A j, k \in DOMAIN q : q[j].alg = q[k].alg => j = k}

NoRanking == [pc |-> "idle", results |-> <<>>, rankings |-> EmptyMap]

\* faulty variant: an item goes before the items of equal key
SortedPositionBeforeTies(q, x) ==
    Cardinality({k \in DOMAIN q : q[k].bestFitness < x.bestFitness})

\* where sorted() puts item x in the sorted list q: after the items whose key
\* is not larger (the sort is stable)
SortedPosition(q, x) ==
    Cardinality({k \in DOMAIN q : q[k].bestFitness <= x.bestFitness})

\* sorted(results.items(), key=lambda x: x[1]["bestFitness"])
RECURSIVE sorted(_)
sorted(items) ==
    IF items = <<>> THEN <<>>
    ELSE LET n    == Len(items)
             q    == sorted(SubSeq(items, 1, n - 1))
             at   == SortedPosition(q, items[n])
         IN  SubSeq(q, 1, at) \o <<items[n]>> \o SubSeq(q, at + 1, Len(q))

\* {alg: rank + 1 for rank, (alg, _) in enumerate(sorted_algs)}
calculate_rankings(results) ==
    LET sorted_algs == sorted(results) IN
    [alg \in {sorted_algs[k].alg : k \in DOMAIN sorted_algs} |->
        CHOOSE rank \in DOMAIN sorted_algs : sorted_algs[rank].alg = alg]

\* _calculate_rankings(results) returns
rankings_return ==
    /\ ranking.pc = "called"
    /\ ranking' = [ranking EXCEPT !.pc = "returned",
                                  !.rankings = calculate_rankings(ranking.results)]
    /\ UNCHANGED <<bridge, active_tasks, task_results, executor, streams, cancelResp,
                   runs, reported, cancelledAt, sim>>

\* --------------------------------------------------- _simulate_optimization
\* the raw fitness values of a run: one below the floor and one above it
SimRaw == {0, MaxFitness}
\* a run long enough for ten progress callbacks
LongRun == CallbackEvery * CallbackEvery

NoSim ==
    [pc |-> "idle", max_iter |-> 0, draws |-> {}, i |-> 0,
     convergence_curve |-> <<>>, sink |-> <<>>, result |-> <<>>]

\* _simulate_optimization called with config.maxIterations = max_iter and a
\* progress sink that records its arguments; draws: the values its random
\* fitness takes
NewSim(max_iter, draws) ==
    [NoSim EXCEPT !.pc = "called", !.max_iter = max_iter, !.draws = draws]

\* progress_callback(i + 1, max_iter, current_fitness)
SinkArgs(i, max_iter, fitness) ==
    [current |-> i + 1, total |-> max_iter, fitness |-> fitness]

\* the result dictionary: bestFitness is convergence_curve[-1]
SimRunResult(curve, max_iter) ==
    [bestFitness |-> curve[Len(curve)], convergenceCurve |-> curve,
     iterations |-> max_iter]

\* the run from its call, or from one "await asyncio.sleep(0.001)", to the next
\* sleep or to its return
simulate_step ==
    /\ sim.pc \in {"called", "sleep"}
    /\ LET i == IF sim.pc = "called" THEN 0 ELSE sim.i + 1 IN
       IF i < sim.max_iter
       THEN \E raw \in sim.draws :
               LET fit == FloorFitness(raw) IN
               sim' = [sim EXCEPT
                         !.pc = "sleep", !.i = i,
                         !.convergence_curve = Append(@, fit),
                         !.sink = IF SinkDue(i)
                                  THEN Append(@, SinkArgs(i, sim.max_iter, fit))
                                  ELSE @]
       ELSE sim' = [sim EXCEPT
                      !.pc = "returned",
                      !.result = <<SimRunResult(sim.convergence_curve, sim.max_iter)>>]
    /\ UNCHANGED <<bridge, active_tasks, task_results, executor, streams, cancelResp,
                   runs, reported, cancelledAt, ranking>>

\* ------------------------------------------------------------ specification
\* the registry, the executors and the streams before the first request
RegistryInit ==
    /\ bridge \in {NewBridge(available) : available \in BOOLEAN}
    /\ active_tasks = EmptyMap
    /\ task_results = EmptyMap
    /\ executor = [t \in TaskIds |-> NoExecutor]
    /\ streams = [s \in StreamIds |-> NoStream]
    /\ cancelResp = NoCancel
    /\ runs = [t \in TaskIds |-> <<>>]
    /\ reported = [t \in TaskIds |-> {}]
    /\ cancelledAt = [t \in TaskIds |-> -1]

Init ==
    /\ bridge \in {NewBridge(available) : available \in BOOLEAN}
    /\ active_tasks = EmptyMap
    /\ task_results = EmptyMap
    /\ executor = [t \in TaskIds |-> NoExecutor]
    /\ streams = [s \in StreamIds |-> NoStream]
    /\ cancelResp = NoCancel
    /\ runs = [t \in TaskIds |-> <<>>]
    /\ reported = [t \in TaskIds |-> {}]
    /\ cancelledAt = [t \in TaskIds |-> -1]
    /\ ranking = NoRanking
    /\ sim = NoSim

\* the steps of the batch executors, the backends and the cancel requests
Executors ==
    \/ \E t \in TaskIds : run_batch_task(t)
    \/ \E t \in TaskIds : simulate_resume(t)
    \/ \E t \in TaskIds : matlab_return(t)
    \/ \E t \in TaskIds : matlab_raise(t)
    \/ \E t \in TaskIds : cancel_task(t)

\* one batch task, no observer
Next ==
    \/ connect
    \/ submit_batch_task({"t1"}, AlgorithmLists, IterChoices)
    \/ Executors

Spec == Init /\ [][Next]_vars

\* one batch task of short runs, observed by a progress stream
StreamNext ==
    \/ connect
    \/ submit_batch_task({"t1"}, ShortAlgorithmLists, ShortIterChoices)
    \/ Executors
    \/ \E s \in StreamIds : ws_accept(s)
    \/ \E s \in StreamIds : ws_poll(s)
    \/ \E s \in StreamIds : ws_progress_sent(s)
    \/ \E s \in StreamIds : ws_result_sent(s)
    \/ \E s \in StreamIds : ws_disconnect(s)

StreamSpec == Init /\ [][StreamNext]_vars

\* a step of the coroutine that asyncio.create_task scheduled for task t
ExecutorStep(t) ==
    \/ run_batch_task(t)
    \/ simulate_resume(t)
    \/ matlab_return(t)
    \/ matlab_raise(t)

\* the event loop resumes every ready coroutine, and every engine call ends;
\* cancel requests and stream observers come and go as they please
FairSpec ==
    /\ Init
    /\ [][StreamNext]_vars
    /\ \A t \in TaskIds : WF_vars(ExecutorStep(t))

\* two batch tasks of short runs whose executors interleave
PairNext ==
    \/ connect
    \/ submit_batch_task(TaskIds, ShortAlgorithmLists, ShortIterChoices)
    \/ Executors

PairSpec == Init /\ [][PairNext]_vars

\* one call of _calculate_rankings on every dictionary of RankInputs
RankInit ==
    /\ RegistryInit
    /\ ranking \in {[NoRanking EXCEPT !.pc = "called", !.results = r] : r \in RankInputs}
    /\ sim = NoSim

RankNext == rankings_return

RankSpec == RankInit /\ [][RankNext]_vars

\* one run of the synthetic backend for every maxIterations from 1 to MaxIter,
\* and one long run of a single fitness value
SimInit ==
    /\ RegistryInit
    /\ ranking = NoRanking
    /\ sim \in {NewSim(n, SimRaw) : n \in 1..MaxIter} \cup {NewSim(LongRun, {MaxFitness})}

SimNext == simulate_step

SimSpec == SimInit /\ [][SimNext]_vars

\* ------------------------------------------------------------------ claims
Known == DOMAIN active_tasks
Status(t) == active_tasks[t].status
SetMin(S) == CHOOSE x \in S : \A y \in S : x <= y
SeqRange(q) == {q[k] : k \in DOMAIN q}

\* C1: once a task's status is completed, error or cancelled, no step changes
\* it again (a cancelled task never becomes error or completed).
C1_TerminalStatusIsFinal ==
    [][\A t \in Known :
          Status(t) \in Terminal => active_tasks'[t].status = Status(t)]_vars

\* C2: once a task's status is terminal, its progress, currentIteration,
\* currentFitness and bestFitness are frozen.
C2_TerminalFieldsFrozen ==
    [][\A t \in Known :
          Status(t) \in Terminal =>
             /\ active_tasks'[t].progress = active_tasks[t].progress
             /\ active_tasks'[t].currentIteration = active_tasks[t].currentIteration
             /\ active_tasks'[t].currentFitness = active_tasks[t].currentFitness
             /\ active_tasks'[t].bestFitness = active_tasks[t].bestFitness]_vars

\* C3: a stream that ran to its end on a completed task delivered a progress
\* message showing status completed, then exactly one result message, last.
C3_CompletedThenResult ==
    \A s \in StreamIds :
       LET m == streams[s].msgs
           n == Len(m)
       IN  (/\ streams[s].pc = "closed"
            /\ streams[s].task_id \in Known
            /\ Status(streams[s].task_id) = "completed")
           => /\ n >= 2
              /\ m[n].type = "result"
              /\ Cardinality({k \in 1..n : m[k].type = "result"}) = 1
              /\ m[n - 1].type = "progress"
              /\ m[n - 1].data.status = "completed"

\* C4: a cancel request on a running task sets status cancelled and answers
\* true; on any other status it answers false and changes neither the task,
\* the result store nor the executor; an idle task is still due to run.
C4_CancelOnlyRunning ==
    /\ [][\A t \in Known :
             cancelResp'.task = t =>
                IF Status(t) = "running"
                THEN /\ cancelResp'.cancelled
                     /\ active_tasks' = [active_tasks EXCEPT ![t].status = "cancelled"]
                     /\ UNCHANGED <<task_results, executor>>
                ELSE /\ ~cancelResp'.cancelled
                     /\ UNCHANGED <<active_tasks, task_results, executor, bridge,
                                    runs, reported>>]_vars
    /\ [](\A t \in Known : Status(t) = "idle" => ENABLED run_batch_task(t))

C4_Witness ==
    /\ "t1" \in Known
    /\ Status("t1") = "idle"
    /\ cancelResp = [task |-> "t1", cancelled |-> FALSE]

\* C5: every backend invocation starts with status running, the invocation in
\* flight when the cancel succeeded is the last one, and a cancelled executor
\* ends with status cancelled and nothing in the result store.
C5_NoRunAfterCancel ==
    \A t \in Known :
       /\ \A k \in DOMAIN runs[t] : runs[t][k].startStatus = "running"
       /\ cancelledAt[t] >= 0 => Len(runs[t]) = cancelledAt[t]
       /\ (cancelledAt[t] >= 0 /\ executor[t].pc = "done")
             => Status(t) = "cancelled" /\ t \notin DOMAIN task_results

\* C6: progress never decreases, and it is exactly 100 when status is completed.
C6_ProgressMonotone ==
    /\ [][\A t \in Known :
             ProgressLeq(active_tasks[t].progress, active_tasks'[t].progress)]_vars
    /\ [](\A t \in Known :
             Status(t) = "completed" => active_tasks[t].progress = ProgressFull)

C6_Witness ==
    /\ "t1" \in Known
    /\ Status("t1") = "completed"
    /\ active_tasks["t1"].currentIteration >= 2
    /\ active_tasks["t1"].progress = ProgressFull

\* C7: bestFitness starts at +infinity, never increases, is the minimum of
\* the fitness values reported so far and is at most currentFitness.
C7_BestFitnessIsMinimum ==
    /\ [][\A t \in Known :
             active_tasks'[t].bestFitness <= active_tasks[t].bestFitness]_vars
    /\ [](\A t \in Known :
             /\ active_tasks[t].bestFitness = SetMin(reported[t] \cup {Inf})
             /\ active_tasks[t].bestFitness <= active_tasks[t].currentFitness
             /\ Status(t) = "idle" => active_tasks[t].bestFitness = Inf)

C7_Witness ==
    /\ "t1" \in Known
    /\ Len(runs["t1"]) = 2
    /\ Cardinality(reported["t1"]) = 2
    /\ active_tasks["t1"].bestFitness < active_tasks["t1"].currentFitness

\* C8: when a backend run fails, the status is error, the failed run is the
\* last invocation of the batch (no later algorithm, no retry) and the result
\* store holds nothing for the task.
C8_FailFast ==
    \A t \in Known :
       /\ Len(runs[t]) <= Len(executor[t].algorithms)
       /\ \A k \in DOMAIN runs[t] :
             /\ runs[t][k].alg = executor[t].algorithms[k]
             /\ runs[t][k].outcome = "failed" =>
                   /\ k = Len(runs[t])
                   /\ Status(t) = "error"
                   /\ executor[t].pc = "done"
                   /\ t \notin DOMAIN task_results

C8_Witness ==
    /\ "t1" \in Known
    /\ Len(executor["t1"].algorithms) = 2
    /\ Len(runs["t1"]) = 2
    /\ runs["t1"][1].outcome = "returned"
    /\ runs["t1"][2].outcome = "failed"

\* the result of the last invocation of algorithm a in the history of task t
LastRunOf(t, a) ==
    LET k == CHOOSE j \in DOMAIN runs[t] :
                /\ runs[t][j].alg = a
                /\ \A h \in DOMAIN runs[t] : runs[t][h].alg = a => h <= j
    IN  runs[t][k]

\* C9: the result store has an entry for a task exactly when its status is
\* completed; the entry maps exactly the requested algorithm ids to their
\* results, appears in the step that sets completed and never changes.
C9_ResultsIffCompleted ==
    /\ [](/\ DOMAIN task_results = {t \in Known : Status(t) = "completed"}
          /\ \A t \in DOMAIN task_results :
                /\ DOMAIN task_results[t] = SeqRange(executor[t].algorithms)
                /\ \A a \in DOMAIN task_results[t] :
                      /\ task_results[t][a].algorithm = a
                      /\ LastRunOf(t, a).outcome = "returned"
                      /\ task_results[t][a].bestFitness = LastRunOf(t, a).bestFitness)
    /\ [][/\ \A t \in DOMAIN task_results :
                t \in DOMAIN task_results' /\ task_results'[t] = task_results[t]
          /\ \A t \in (DOMAIN task_results') \ DOMAIN task_results :
                Status(t) # "completed" /\ active_tasks'[t].status = "completed"]_vars

C9_Witness ==
    /\ "t1" \in DOMAIN task_results
    /\ DOMAIN task_results["t1"] = AlgorithmIds

\* C10: when connect() could not establish the engine connection, the bridge
\* is in simulation mode and connected, and no run is handed to the engine.
C10_FallbackToSimulation ==
    bridge.attempt \in {"start_fails", "setup_fails"} =>
       /\ bridge.simulation_mode
       /\ bridge.connected
       /\ \A t \in TaskIds : executor[t].pc # "matlab"

\* C11: a submission creates, under an id not in use, a task with status
\* idle, currentIteration 0, progress 0, bestFitness +infinity and
\* totalIterations = maxIterations * number of listed algorithms; no later
\* step changes totalIterations.
C11_SubmitCreatesIdleTask ==
    [][\A t \in TaskIds :
          /\ (t \notin Known /\ t \in DOMAIN active_tasks') =>
                /\ DOMAIN active_tasks' = Known \cup {t}
                /\ active_tasks'[t].status = "idle"
                /\ active_tasks'[t].currentIteration = 0
                /\ active_tasks'[t].progress = ProgressZero
                /\ active_tasks'[t].bestFitness = Inf
                /\ active_tasks'[t].totalIterations =
                      executor'[t].maxIterations * Len(executor'[t].algorithms)
          /\ t \in Known =>
                /\ t \in DOMAIN active_tasks'
                /\ active_tasks'[t].totalIterations = active_tasks[t].totalIterations]_vars

C11_Witness ==
    /\ "t1" \in Known
    /\ Status("t1") = "completed"
    /\ executor["t1"].algorithms = <<"GWO", "GWO">>
    /\ active_tasks["t1"].totalIterations = 2 * MaxIter

\* C12: the ranking of n algorithms uses exactly the ranks 1..n, gives a
\* strictly lower rank to a strictly lower bestFitness and ranks equal
\* bestFitness in input order; {A:5, B:2, C:8} gives {B:1, A:2, C:3} and the
\* empty input the empty ranking.
C12_RankingIsStableOrder ==
    ranking.pc = "returned" =>
       LET r == ranking.results
           k == ranking.rankings
           n == Len(r)
       IN  /\ DOMAIN k = {r[j].alg : j \in 1..n}
           /\ {k[a] : a \in DOMAIN k} = 1..n
           /\ \A i, j \in 1..n :
                 /\ r[i].bestFitness < r[j].bestFitness => k[r[i].alg] < k[r[j].alg]
                 /\ (r[i].bestFitness = r[j].bestFitness /\ i < j)
                       => k[r[i].alg] < k[r[j].alg]
           /\ r = <<[alg |-> "A", bestFitness |-> 5], [alg |-> "B", bestFitness |-> 2],
                    [alg |-> "C", bestFitness |-> 8]>>
                 => (k["B"] = 1 /\ k["A"] = 2 /\ k["C"] = 3)
           /\ r = <<>> => k = EmptyMap

C12_Witness ==
    /\ ranking.pc = "returned"
    /\ ranking.results = <<[alg |-> "A", bestFitness |-> 5], [alg |-> "B", bestFitness |-> 5],
                           [alg |-> "C", bestFitness |-> 2]>>
    /\ ranking.rankings["C"] = 1
    /\ ranking.rankings["A"] = 2
    /\ ranking.rankings["B"] = 3

\* C13: a synthetic run with maxIterations = N >= 1 returns a convergence
\* curve of N values, none below the floor, with bestFitness its last value;
\* the progress sink was called for the iterations 1, 11, 21, ... up to N, in
\* this order, each with total N and the curve value of that iteration (ten
\* calls for N = 100).
C13_SyntheticRun ==
    LET N     == sim.max_iter
        curve == sim.convergence_curve
        sink  == sim.sink
    IN  /\ Len(curve) <= N
        /\ \A k \in DOMAIN curve : curve[k] >= FitnessFloor
        /\ \A k \in DOMAIN sink :
              /\ sink[k].current = 10 * (k - 1) + 1
              /\ sink[k].total = N
              /\ sink[k].fitness = curve[sink[k].current]
        /\ sim.pc = "returned" =>
              /\ Len(curve) = N
              /\ sim.result[1].convergenceCurve = curve
              /\ sim.result[1].bestFitness = curve[N]
              /\ {sink[k].current : k \in DOMAIN sink} =
                    {c \in 1..N : (c - 1) % 10 = 0}
              /\ N = 100 => Len(sink) = 10 /\ sink[10].current = 91

C13_Witness ==
    /\ sim.pc = "returned"
    /\ sim.max_iter = 100
    /\ Len(sim.sink) = 10
    /\ Len(sim.convergence_curve) = 100

\* C14: a stream on a task id that is not in the registry has emitted nothing,
\* is still in its polling loop and can poll again; once the id is known its
\* next poll sends a progress snapshot of the task.
C14_UnknownTaskIdles ==
    /\ [](\A s \in StreamIds :
             (streams[s].pc # "none" /\ streams[s].task_id \notin Known) =>
                /\ streams[s].msgs = <<>>
                /\ streams[s].pending = <<>>
                /\ streams[s].pc \in {"accepting", "sleeping"}
                /\ ENABLED ws_poll(s))
    /\ [][\A s \in StreamIds :
             (/\ streams[s].pc \in {"accepting", "sleeping"}
              /\ streams[s].task_id \in Known
              /\ streams'[s] # streams[s]) =>
                /\ streams'[s].pc = "sending"
                /\ streams'[s].pending = <<model_dump(active_tasks[streams[s].task_id])>>]_vars

C14_Witness ==
    /\ streams["w1"].missed
    /\ streams["w1"].task_id = "t1"
    /\ Len(streams["w1"].msgs) >= 1
    /\ streams["w1"].msgs[1].type = "progress"

\* C15: a result message is the last message of its stream, comes right after
\* a progress snapshot showing status completed, and is sent only for a
\* completed task with a stored result; a stream closed on a task in error or
\* cancelled ends with a progress snapshot showing that status and no result.
C15_ResultOnlyAfterTerminalSnapshot ==
    \A s \in StreamIds :
       LET m   == streams[s].msgs
           n   == Len(m)
           tid == streams[s].task_id
       IN  /\ \A k \in 1..n :
                 m[k].type = "result" =>
                    /\ k = n
                    /\ k >= 2
                    /\ m[k - 1].type = "progress"
                    /\ m[k - 1].data.status = "completed"
                    /\ Status(tid) = "completed"
                    /\ tid \in DOMAIN task_results
           /\ (/\ streams[s].pc = "closed"
               /\ tid \in Known
               /\ Status(tid) \in {"error", "cancelled"}) =>
                 /\ n >= 1
                 /\ m[n].type = "progress"
                 /\ m[n].data.status \in {"error", "cancelled"}

\* C16: no step of a stream changes a task, the result store or an executor;
\* a disconnected stream takes no further step, and an executor that has not
\* finished can always take its next step.
C16_StreamIsReadOnly ==
    /\ [][streams' # streams =>
             UNCHANGED <<active_tasks, task_results, executor, bridge, runs,
                         reported, cancelledAt>>]_vars
    /\ [](\A s \in StreamIds :
             streams[s].pc = "disconnected" =>
                ~ENABLED (\/ ws_accept(s) \/ ws_poll(s) \/ ws_progress_sent(s)
                          \/ ws_result_sent(s) \/ ws_disconnect(s)))
    /\ [](\A t \in Known :
             executor[t].pc # "done" =>
                ENABLED (\/ run_batch_task(t) \/ simulate_resume(t)
                         \/ matlab_return(t) \/ matlab_raise(t)))

C16_Witness ==
    /\ streams["w1"].pc = "disconnected"
    /\ streams["w1"].task_id = "t1"
    /\ Len(streams["w1"].msgs) = 1
    /\ streams["w1"].msgs[1].data.status = "idle"
    /\ "t1" \in Known
    /\ Status("t1") = "completed"

\* C17: every submitted task eventually has a terminal status (completed,
\* error or cancelled) and never goes back to idle or running, however cancel
\* requests and stream observers interleave with a fairly scheduled executor.
C17_EventuallyTerminal ==
    /\ \A t \in TaskIds : (t \in Known) ~> (t \in Known /\ Status(t) \in Terminal)
    /\ [][\A t \in Known :
             Status(t) \in Terminal => active_tasks'[t].status \in Terminal]_vars

C17_Witness ==
    /\ "t1" \in Known
    /\ Status("t1") = "cancelled"
    /\ executor["t1"].pc = "done"
    /\ cancelledAt["t1"] >= 0
    /\ streams["w1"].pc = "closed"
    /\ streams["w1"].task_id = "t1"

\* C18: the backend runs of a task follow the order of the request; only the
\* latest run can be in flight, and a run starts only when every earlier run
\* has returned and its result is in the executor's results dictionary.
C18_SequentialRuns ==
    /\ [](\A t \in Known :
             /\ Len(runs[t]) <= Len(executor[t].algorithms)
             /\ \A k \in DOMAIN runs[t] :
                   /\ runs[t][k].alg = executor[t].algorithms[k]
                   /\ k < Len(runs[t]) =>
                         /\ runs[t][k].outcome = "returned"
                         /\ runs[t][k].alg \in DOMAIN executor[t].results
                   /\ runs[t][k].outcome = "pending" =>
                         executor[t].pc \in {"sleep", "matlab"})
    /\ [][\A t \in Known :
             LET n == Len(runs[t]) IN
             Len(runs'[t]) # n =>
                /\ Len(runs'[t]) = n + 1
                /\ n > 0 =>
                      /\ runs'[t][n].outcome = "returned"
                      /\ runs'[t][n].alg \in DOMAIN executor'[t].results
                      /\ executor'[t].results[runs'[t][n].alg].algorithm
                            = runs'[t][n].alg]_vars

C18_Witness ==
    /\ "t1" \in Known
    /\ Len(runs["t1"]) = 2
    /\ runs["t1"][1].outcome = "returned"
    /\ runs["t1"][1].alg = "GWO"
    /\ runs["t1"][2].outcome = "pending"
    /\ runs["t1"][2].alg = "ALO"
    /\ DOMAIN executor["t1"].results = {"GWO"}

\* C19: after a progress-sink invocation made at iteration i of algorithm
\* number k (from 0), currentIteration = k * maxIterations + i + 1, the number
\* of iterations completed so far across the whole batch.
C19_GlobalIterationCount ==
    \A t \in Known :
       (executor[t].pc = "sleep" /\ SinkDue(executor[t].i)) =>
          active_tasks[t].currentIteration
             = (executor[t].idx - 1) * executor[t].maxIterations + executor[t].i + 1

\* C20: while a task has not completed, every state a reader can observe has
\* progress = 100 * currentIteration / totalIterations (cross-multiplied, the
\* fraction kept exact), 0 <= progress <= 100 and
\* currentIteration <= totalIterations; the callback writes them in one step.
C20_ProgressConsistent ==
    \A t \in Known :
       LET task == active_tasks[t] IN
       task.status # "completed" =>
          /\ task.progress.num * task.totalIterations
                = 100 * task.currentIteration * task.progress.den
          /\ ProgressLeq(ProgressZero, task.progress)
          /\ ProgressLeq(task.progress, ProgressFull)
          /\ task.currentIteration <= task.totalIterations

\* C21: the entry stored for a completed task, and the data of a stream's
\* result message, carry the per-algorithm results together with the derived
\* statistics, whose rankings are those of _calculate_rankings.
C21_StoredEntryHasStatistics ==
    /\ \A t \in DOMAIN task_results :
          /\ "statistics" \in DOMAIN task_results[t]
          /\ "rankings" \in DOMAIN task_results[t]["statistics"]
    /\ \A s \in StreamIds :
          \A k \in DOMAIN streams[s].msgs :
             streams[s].msgs[k].type = "result" =>
                "statistics" \in DOMAIN streams[s].msgs[k].data

Entry(f, t) == IF t \in DOMAIN f THEN <<f[t]>> ELSE <<>>

\* the progress-sink invocations the backend has made for task t, read off the
\* position of t's own executor
OwnSinkCalls(t) ==
    LET ex     == executor[t]
        perRun == IF bridge.simulation_mode /\ ex.maxIterations > 0
                  THEN (ex.maxIterations + CallbackEvery - 1) \div CallbackEvery
                  ELSE 0
    IN  CASE ex.pc \in {"none", "scheduled"} -> 0
          [] ex.pc = "sleep" -> (ex.idx - 1) * perRun + (ex.i \div CallbackEvery) + 1
          [] OTHER -> (ex.idx - 1) * perRun

\* C22: a step of task a's executor or a cancel of a leaves every field of
\* every other task b, b's result entry and b's executor unchanged, and each
\* executor's completed_iterations counts its own task's sink calls only.
C22_TasksIsolated ==
    /\ [][\A a \in TaskIds :
             (ExecutorStep(a) \/ cancel_task(a)) =>
                \A b \in TaskIds \ {a} :
                   /\ Entry(active_tasks', b) = Entry(active_tasks, b)
                   /\ Entry(task_results', b) = Entry(task_results, b)
                   /\ executor'[b] = executor[b]
                   /\ runs'[b] = runs[b]
                   /\ reported'[b] = reported[b]]_vars
    /\ [](\A t \in Known :
             /\ executor[t].completed_iterations = OwnSinkCalls(t)
             /\ active_tasks[t].currentIteration = executor[t].completed_iterations)

C22_Witness ==
    /\ Known = TaskIds
    /\ executor["t1"].pc = "sleep"
    /\ executor["t1"].completed_iterations = 2
    /\ Status("t1") = "running"
    /\ executor["t2"].pc = "sleep"
    /\ executor["t2"].completed_iterations = 1
    /\ Status("t2") = "cancelled"
    /\ "t1" \notin DOMAIN task_results

====
